---- MODULE Spec2Model ----
(***************************************************************************)
(* Statement.js of rollup: the per-statement analysis (analyse,            *)
(* checkForReads, checkForWrites), the dependency expansion (expand) and   *)
(* the identifier rewrite (replaceIdentifiers).                            *)
(*                                                                         *)
(* Three specifications share the module:                                  *)
(*   SpecExpand   the bundling session: statements' name sets are          *)
(*                recorded, then expand() calls are made at any moment     *)
(*                and run as chains of sequential promise steps;           *)
(*   SpecAnalyse  analyse() of one statement, one visited node per step;   *)
(*   SpecReplace  replaceIdentifiers() calls on one analysed statement.    *)
(***************************************************************************)
EXTENDS Integers, Sequences, FiniteSets, TLC

VARIABLES
    \* ---- bundling session (expand) ----
    phase,          \* "analyse" while name sets are recorded, then "bundle"
    dependsOn,      \* statement -> its dependsOn keys, in insertion order
    modifies,       \* statement -> its modifies keys
    defines,        \* statement -> its defines keys, in insertion order
    isIncluded,     \* statement -> the one-shot inclusion flag
    chains,         \* the pending top-level expand() calls: for each, the
                    \*   stack of expand() bodies awaiting, innermost last
    ret,            \* statement -> the list its expand() body resolved to
    entered,        \* statement -> how often its expand() body was entered
    top,            \* statements whose body was entered by a top-level call
    pendingAtEntry, \* statement -> the statements still resolving their
                    \*   dependencies when its body was entered
    includedAtPush, \* statement -> the statements included when it appended
                    \*   itself to its result
    last,           \* the list the latest step resolved a top-level call
                    \*   to, [stmt, list, again], NoCall if it resolved none
    \* ---- one statement: analyse() and replaceIdentifiers() ----
    node,           \* the statement's syntax tree
    imports,        \* module.imports: name -> "none", "named" or "*"
    statement,      \* [scopes, defines, modifies, dependsOn] of the statement
    walk,           \* [pass, cursor]: where analyse() is in its two walks
    error,          \* the illegal-reassignment error thrown, or NoError
    skip,           \* the paths of the nodes that carry the _skip annotation
    buffer,         \* the edits of the copy the latest replaceIdentifiers()
                    \*   call returned
    args,           \* the arguments of that call: [names, bundleExports, called]
    insertFails     \* whether the statement's buffer refuses an insertion at
                    \*   the end of the statement's node

evars == << phase, dependsOn, modifies, defines, isIncluded, chains, ret, entered,
            top, pendingAtEntry, includedAtPush, last >>

avars == << node, imports, statement, walk, error >>

rvars == << skip, buffer, args, insertFails >>

vars == << evars, avars, rvars >>

(***************************************************************************)
(* Bounds of the bundling session.                                         *)
(***************************************************************************)
NStmts == 2
NNames == 2
MaxEdges == 2
MaxDefines == 2

Stmts == 1 .. NStmts
\* The names of the module; a name no statement declares is a global.
Names == 1 .. NNames
None == 0
NoCall == [stmt |-> None, list |-> << >>, again |-> FALSE]

Range(seq) == { seq[k] : k \in 1 .. Len(seq) }

IndexOf(seq, x) == CHOOSE k \in 1 .. Len(seq) : seq[k] = x

RECURSIVE Ascending(_)
Ascending(S) ==
    IF S = {} THEN << >>
    ELSE LET m == CHOOSE x \in S : \A y \in S : x <= y
         IN  << m >> \o Ascending(S \ {m})

\* Module.define( name ) expands the statements that declare the name: they
\* are these, in source order.
definitions(n) == Ascending({ s \in Stmts : n \in Range(defines[s]) })

\* Module.modifications[ name ]: the statements that modify it, source order.
modifications(n) == Ascending({ s \in Stmts : n \in modifies[s] })

\* The statements step 1 of expand() asks for: for each name of dependsOn, in
\* key order, the statements Module.define expands.
RECURSIVE definersFrom(_, _)
definersFrom(names, k) ==
    IF k > Len(names) THEN << >>
    ELSE definitions(names[k]) \o definersFrom(names, k + 1)

definersOf(s) == definersFrom(dependsOn[s], 1)

\* The statements step 3 of expand() walks: for each defined name, in key
\* order, the recorded modifiers of that name.
RECURSIVE modifiersFrom(_, _)
modifiersFrom(names, k) ==
    IF k > Len(names) THEN << >>
    ELSE modifications(names[k]) \o modifiersFrom(names, k + 1)

modifiersOf(s) == modifiersFrom(defines[s], 1)

RECURSIVE SumOver(_, _)
SumOver(f, S) ==
    IF S = {} THEN 0
    ELSE LET s == CHOOSE x \in S : TRUE
         IN  f[s] + SumOver(f, S \ {s})

EdgeCount == SumOver([s \in Stmts |-> Len(dependsOn[s]) + Cardinality(modifies[s])], Stmts)

DefineCount == SumOver([s \in Stmts |-> Len(defines[s])], Stmts)

emptyArrayPromise == << >>

(***************************************************************************)
(* Syntax trees.  A node carries its type, the fields the analysis reads    *)
(* (name, kind, computed) and its child nodes in source order; a node is    *)
(* identified by its path, the child indexes that lead to it from the       *)
(* statement's node.                                                        *)
(***************************************************************************)
MaxMemberDepth == 2

IdNames == { "x", "y" }

Node(t, n, k, c, h, ks) ==
    [type |-> t, name |-> n, kind |-> k, computed |-> c, hasId |-> h, kids |-> ks]

Identifier(n) == Node("Identifier", n, "", FALSE, FALSE, << >>)
Literal == Node("Literal", "", "", FALSE, FALSE, << >>)
ThisExpression == Node("ThisExpression", "", "", FALSE, FALSE, << >>)
\* kids: object, property
MemberExpression(o, prop, c) == Node("MemberExpression", "", "", c, FALSE, << o, prop >>)
\* kids: left, right
AssignmentExpression(l, r) == Node("AssignmentExpression", "", "", FALSE, FALSE, << l, r >>)
\* kids: argument
UpdateExpression(a) == Node("UpdateExpression", "", "", FALSE, FALSE, << a >>)
\* kids: callee, then the arguments
CallExpression(callee, arguments) ==
    Node("CallExpression", "", "", FALSE, FALSE, << callee >> \o arguments)
\* kids: key, value
Property(key, value) == Node("Property", "", "", FALSE, FALSE, << key, value >>)
ObjectExpression(props) == Node("ObjectExpression", "", "", FALSE, FALSE, props)
ExpressionStatement(e) == Node("ExpressionStatement", "", "", FALSE, FALSE, << e >>)
ReturnStatement(e) == Node("ReturnStatement", "", "", FALSE, FALSE, << e >>)
\* kids: id, init
VariableDeclarator(id, init) == Node("VariableDeclarator", "", "", FALSE, FALSE, << id, init >>)
\* kids: the declarators
VariableDeclaration(k, decls) == Node("VariableDeclaration", "", k, FALSE, FALSE, decls)
BlockStatement(body) == Node("BlockStatement", "", "", FALSE, FALSE, body)
\* kids: id, then the params, then the body
FunctionDeclaration(id, params, body) ==
    Node("FunctionDeclaration", "", "", FALSE, TRUE, << id >> \o params \o << body >>)
\* kids: id (a named function expression), then the params, then the body
NamedFunctionExpression(id, params, body) ==
    Node("FunctionExpression", "", "", FALSE, TRUE, << id >> \o params \o << body >>)
FunctionExpression(params, body) ==
    Node("FunctionExpression", "", "", FALSE, FALSE, params \o << body >>)
\* kids: param, body
CatchClause(param, body) == Node("CatchClause", "", "", FALSE, FALSE, << param, body >>)
\* kids: block, handler
TryStatement(block, handler) == Node("TryStatement", "", "", FALSE, FALSE, << block, handler >>)
ExportNamedDeclaration(decl) == Node("ExportNamedDeclaration", "", "", FALSE, FALSE, << decl >>)

FunctionId(n) == n.kids[1]

ParamNames(n) ==
    { n.kids[k].name : k \in (IF n.hasId THEN 2 ELSE 1) .. (Len(n.kids) - 1) }

RECURSIVE NodeAt(_, _)
NodeAt(tree, path) ==
    IF path = << >> THEN tree ELSE NodeAt(tree.kids[Head(path)], Tail(path))

ParentPath(path) == SubSeq(path, 1, Len(path) - 1)

ChildIndex(path) == path[Len(path)]

IsPrefix(q, path) == Len(q) <= Len(path) /\ SubSeq(path, 1, Len(q)) = q

\* walk( node, { enter, leave } ): the paths of the subtree, parents first.
RECURSIVE Visits(_, _), VisitKids(_, _, _)
Visits(n, path) == << path >> \o VisitKids(n, path, 1)
VisitKids(n, path, k) ==
    IF k > Len(n.kids) THEN << >>
    ELSE Visits(n.kids[k], Append(path, k)) \o VisitKids(n, path, k + 1)

(***************************************************************************)
(* The statements analysed: a write, a call, a read or an object literal    *)
(* over a member chain, at the top level or inside a function, a block or   *)
(* a catch handler that may declare the name.                               *)
(***************************************************************************)
RECURSIVE Chains(_)
Chains(d) ==
    IF d = 0 THEN { Identifier(n) : n \in IdNames } \cup { ThisExpression }
    ELSE LET C == Chains(d - 1)
         IN  C \cup { MemberExpression(o, Identifier("y"), c) : o \in C, c \in BOOLEAN }

Targets == Chains(MaxMemberDepth)

Objects == { ObjectExpression(<< Property(Identifier(k), Identifier(v)) >>) :
                k \in IdNames, v \in IdNames }

Exprs ==
    Targets \cup Objects
      \cup { AssignmentExpression(tg, Literal) : tg \in Targets }
      \cup { UpdateExpression(tg) : tg \in Targets }
      \cup { CallExpression(Identifier("f"), << tg >>) : tg \in Targets }

Declare(k, n) == VariableDeclaration(k, << VariableDeclarator(Identifier(n), Literal) >>)

Programs ==
    { ExpressionStatement(e) : e \in Exprs }
      \cup { FunctionDeclaration(Identifier("f"), << Identifier(pn) >>,
                 BlockStatement(<< ExpressionStatement(e) >>)) :
               pn \in IdNames, e \in Exprs }
      \cup { FunctionDeclaration(Identifier("f"), << >>,
                 BlockStatement(<< ExpressionStatement(e) >>)) : e \in Exprs }
      \cup { FunctionDeclaration(Identifier("f"), << >>,
                 BlockStatement(<< ExpressionStatement(e), Declare(k, "x") >>)) :
               k \in { "var", "let" }, e \in Exprs }
      \cup { TryStatement(BlockStatement(<< >>),
                 CatchClause(Identifier(n), BlockStatement(<< ExpressionStatement(e) >>))) :
               n \in IdNames, e \in Exprs }
      \cup { VariableDeclaration("var", << VariableDeclarator(Identifier("g"),
                 NamedFunctionExpression(Identifier(n), << >>,
                     BlockStatement(<< ReturnStatement(e) >>))) >>) :
               n \in IdNames, e \in Exprs }
      \cup { VariableDeclaration("var", << VariableDeclarator(Identifier("g"),
                 FunctionExpression(<< >>, BlockStatement(<< ReturnStatement(e) >>))) >>) :
               e \in Exprs }
      \cup { ExportNamedDeclaration(FunctionDeclaration(Identifier(n), << >>,
                 BlockStatement(<< ReturnStatement(CallExpression(Identifier(m), << >>)) >>))) :
               n \in IdNames, m \in IdNames }
      \cup { VariableDeclaration("var", << VariableDeclarator(Identifier(n), e) >>) :
               n \in IdNames, e \in Targets \cup Objects \cup { Literal } }
      \cup { VariableDeclaration("var", << VariableDeclarator(Identifier("x"), Literal),
                                           VariableDeclarator(Identifier("y"), e) >>) :
               e \in Targets \cup { Literal } }

ImportKinds == { "none", "named", "*" }

NoImports == [ n \in IdNames |-> "none" ]

ImportMaps == { [ n \in IdNames |-> IF n = "x" THEN k ELSE "none" ] : k \in ImportKinds }

(***************************************************************************)
(* Scope: the tree of scopes of one statement, keyed by the path of the     *)
(* node each scope is attached to (node._scope); Root is the statement's    *)
(* own scope, attached to no node.                                          *)
(***************************************************************************)
Root == << 0 >>
NoScope == << -1 >>

\* new Scope(): no parent, depth 0, not a block scope
RootScope == [parent |-> Root, declarations |-> {}, isBlockScope |-> FALSE, depth |-> 0]

Blank == [scopes |-> (Root :> RootScope), defines |-> {}, modifies |-> {}, dependsOn |-> {}]

Idle == [pass |-> "idle", cursor |-> 0]

NoNames == << >>

NoArgs == [names |-> NoNames, bundleExports |-> NoNames, called |-> FALSE]

NoError == [name |-> "", at |-> << >>]

\* The scope current when the node at `path` is entered: that of the nearest
\* scope-tagged node above it (or, when `inclusive`, the node itself).
ScopeAt(scopes, path, inclusive) ==
    LET C == { q \in DOMAIN scopes :
                 q # Root /\ IsPrefix(q, path) /\ (inclusive \/ q # path) }
    IN  IF C = {} THEN Root
        ELSE CHOOSE q \in C : \A r \in C : Len(r) <= Len(q)

\* Scope.addDeclaration: a var-like or function declaration met in a block
\* scope goes up to the nearest function or root scope.
RECURSIVE addDeclaration(_, _, _, _)
addDeclaration(scopes, sc, name, isBlockDeclaration) ==
    IF ~isBlockDeclaration /\ scopes[sc].isBlockScope
    THEN addDeclaration(scopes, scopes[sc].parent, name, isBlockDeclaration)
    ELSE [scopes EXCEPT ![sc].declarations = @ \cup { name }]

\* Scope.findDefiningScope: the nearest scope, outward, that declares name.
RECURSIVE findDefiningScope(_, _, _)
findDefiningScope(scopes, sc, name) ==
    IF name \in scopes[sc].declarations THEN sc
    ELSE IF sc = Root THEN NoScope
    ELSE findDefiningScope(scopes, scopes[sc].parent, name)

\* Scope.contains
contains(scopes, sc, name) == findDefiningScope(scopes, sc, name) # NoScope

\* new Scope({ parent, params, block }) attached to the node at `path`
newScope(scopes, path, parent, params, block) ==
    (path :> [parent |-> parent, declarations |-> params, isBlockScope |-> block,
              depth |-> scopes[parent].depth + 1]) @@ scopes

RECURSIVE addDeclarators(_, _, _, _)
addDeclarators(scopes, sc, decl, k) ==
    IF k > Len(decl.kids) THEN scopes
    ELSE addDeclarators(
             addDeclaration(scopes, sc, decl.kids[k].kids[1].name,
                            decl.kind \in { "let", "const" }),
             sc, decl, k + 1)

\* The enter callback of analyse()'s first walk, for the node at `path`.
enterScopes(scopes, tree, path) ==
    LET n == NodeAt(tree, path)
        scope == ScopeAt(scopes, path, FALSE)
    IN  CASE n.type = "FunctionDeclaration" ->
               newScope(addDeclaration(scopes, scope, FunctionId(n).name, FALSE),
                        path, scope, ParamNames(n), FALSE)
          [] n.type = "FunctionExpression" ->
               newScope(scopes, path, scope,
                        ParamNames(n) \cup (IF n.hasId THEN { FunctionId(n).name } ELSE {}),
                        FALSE)
          [] n.type = "ArrowFunctionExpression" ->
               newScope(scopes, path, scope, ParamNames(n), FALSE)
          [] n.type = "BlockStatement" ->
               newScope(scopes, path, scope, {}, TRUE)
          [] n.type = "CatchClause" ->
               newScope(scopes, path, scope, { n.kids[1].name }, TRUE)
          [] n.type = "VariableDeclaration" ->
               addDeclarators(scopes, scope, n, 1)
          [] n.type = "ClassDeclaration" ->
               addDeclaration(scopes, scope, n.kids[1].name, FALSE)
          [] OTHER -> scopes

(***************************************************************************)
(* checkForReads and checkForWrites.                                       *)
(***************************************************************************)
\* The node is no read: not an identifier, the `bar` of `foo.bar`
\* (node !== parent.object) or the `bar` of { bar: foo }.
NotARead(n, parent, index) ==
    \/ n.type # "Identifier"
    \/ parent.type = "MemberExpression" /\ index # 1
    \/ parent.type = "Property" /\ index # 2

\* !this.defines[ node.name ], with this.defines as it is during the walk
NotInDefines(st, name) == name \notin st.defines

checkForReads(st, sc, tree, path) ==
    LET n == NodeAt(tree, path)
    IN  IF path = << >> \/ NotARead(n, NodeAt(tree, ParentPath(path)), ChildIndex(path))
        THEN st
        ELSE LET definingScope == findDefiningScope(st.scopes, sc, n.name)
             IN  IF /\ (definingScope = NoScope \/ st.scopes[definingScope].depth = 0)
                    /\ NotInDefines(st, n.name)
                 THEN [st EXCEPT !.dependsOn = @ \cup { n.name }]
                 ELSE st

RECURSIVE UnwrapDepth(_)
UnwrapDepth(n) == IF n.type = "MemberExpression" THEN 1 + UnwrapDepth(n.kids[1]) ELSE 0

RECURSIVE UnwrapPath(_, _)
UnwrapPath(n, path) ==
    IF n.type = "MemberExpression" THEN UnwrapPath(n.kids[1], Append(path, 1)) ELSE path

\* this.module.imports[ node.name ]
importSpecifier(imp, n) ==
    IF n.type = "Identifier" /\ n.name \in DOMAIN imp THEN imp[n.name] ELSE "none"

MinDepthOne(specifier) == 1

\* 2 for a namespace import, 1 for a named import
minDepth(specifier) == IF specifier = "*" THEN 2 ELSE 1

\* The result of addNode: the statement's sets and the error thrown, if any.
addNode(res, imp, sc, tree, path, disallowImportReassignments) ==
    LET target == NodeAt(tree, path)
        depth == UnwrapDepth(target)
        rootPath == UnwrapPath(target, path)
        n == NodeAt(tree, rootPath)
        specifier == importSpecifier(imp, n)
    IN  IF res.error # NoError THEN res
        ELSE IF /\ disallowImportReassignments
                /\ specifier # "none"
                /\ ~contains(res.st.scopes, sc, n.name)
                /\ depth < minDepth(specifier)
        THEN [res EXCEPT !.error = [name |-> n.name, at |-> rootPath]]
        ELSE IF n.type # "Identifier" THEN res
        ELSE [res EXCEPT !.st.modifies = @ \cup { n.name }]

RECURSIVE addArguments(_, _, _, _, _, _)
addArguments(res, imp, sc, tree, path, k) ==
    IF k > Len(NodeAt(tree, path).kids) THEN res
    ELSE addArguments(addNode(res, imp, sc, tree, Append(path, k), FALSE),
                      imp, sc, tree, path, k + 1)

checkForWrites(st, imp, sc, tree, path) ==
    LET n == NodeAt(tree, path)
        res == [st |-> st, error |-> NoError]
    IN  CASE n.type = "AssignmentExpression" ->
               addNode(res, imp, sc, tree, Append(path, 1), TRUE)
          [] n.type = "UpdateExpression" ->
               addNode(res, imp, sc, tree, Append(path, 1), TRUE)
          [] n.type = "CallExpression" ->
               addArguments(res, imp, sc, tree, path, 2)
          [] OTHER -> res

(***************************************************************************)
(* analyse(), one visited node per action.                                 *)
(***************************************************************************)
Order == Visits(node, << >>)

\* The enter callback of the first walk.
BuildScopes ==
    /\ walk.pass = "scopes"
    /\ walk.cursor <= Len(Order)
    /\ statement' = [statement EXCEPT !.scopes = enterScopes(@, node, Order[walk.cursor])]
    /\ walk' = [walk EXCEPT !.cursor = @ + 1]
    /\ UNCHANGED << node, imports, error >>
    /\ UNCHANGED << evars, rvars >>

\* The first walk is over; the second starts.
StartClassify ==
    /\ walk.pass = "scopes"
    /\ walk.cursor > Len(Order)
    /\ walk' = [pass |-> "classify", cursor |-> 1]
    /\ UNCHANGED << node, imports, statement, error >>
    /\ UNCHANGED << evars, rvars >>

\* The enter callback of the second walk: checkForReads, then checkForWrites.
Classify ==
    /\ walk.pass = "classify"
    /\ walk.cursor <= Len(Order)
    /\ LET path == Order[walk.cursor]
           scope == ScopeAt(statement.scopes, path, TRUE)
           res == checkForWrites(checkForReads(statement, scope, node, path),
                                 imports, scope, node, path)
       IN  /\ statement' = res.st
           /\ error' = res.error
           /\ walk' = IF res.error # NoError
                      THEN [walk EXCEPT !.pass = "failed"]
                      ELSE [walk EXCEPT !.cursor = @ + 1]
    /\ UNCHANGED << node, imports >>
    /\ UNCHANGED << evars, rvars >>

\* keys( scope.declarations ).forEach( name => statement.defines[ name ] = true )
Define ==
    /\ walk.pass = "classify"
    /\ walk.cursor > Len(Order)
    /\ statement' = [statement EXCEPT !.defines = statement.scopes[Root].declarations]
    /\ walk' = [walk EXCEPT !.pass = "done"]
    /\ UNCHANGED << node, imports, error >>
    /\ UNCHANGED << evars, rvars >>

ExpandIdle ==
    /\ phase = "bundle"
    /\ dependsOn = [s \in Stmts |-> << >>]
    /\ modifies = [s \in Stmts |-> {}]
    /\ defines = [s \in Stmts |-> << >>]
    /\ isIncluded = [s \in Stmts |-> FALSE]
    /\ chains = {}
    /\ ret = [s \in Stmts |-> << >>]
    /\ entered = [s \in Stmts |-> 0]
    /\ top = {}
    /\ pendingAtEntry = [s \in Stmts |-> {}]
    /\ includedAtPush = [s \in Stmts |-> {}]
    /\ last = NoCall

InitAnalyse ==
    /\ ExpandIdle
    /\ node \in Programs
    /\ imports \in ImportMaps
    /\ statement = Blank
    /\ walk = [pass |-> "scopes", cursor |-> 1]
    /\ error = NoError
    /\ skip = {}
    /\ buffer = {}
    /\ args = NoArgs
    /\ insertFails = FALSE

NextAnalyse ==
    \/ BuildScopes
    \/ StartClassify
    \/ Classify
    \/ Define

SpecAnalyse == InitAnalyse /\ [][NextAnalyse]_vars

(***************************************************************************)
(* replaceIdentifiers( names, bundleExports ).  A replacement is the       *)
(* sequence of its dot-separated segments ("exports.x" is << "exports",    *)
(* "x" >>).  The edited copy of the text is the set of edits made on the   *)
(* clone: "overwrite" from the start of node `from` to the end of node     *)
(* `upto`, "insert" at the end of node `from`.                             *)
(***************************************************************************)
Replacements == { << "y" >>, << "y", "x" >> }

NameMaps == { NoNames } \cup { (k :> r) : k \in IdNames, r \in Replacements }

ExportMaps ==
    { NoNames, ("x" :> "exports.x"), ("x" :> "exports.x") @@ ("y" :> "exports.y") }

\* the text of a replacement
RECURSIVE Join(_)
Join(segments) ==
    IF Len(segments) = 1 THEN segments[1]
    ELSE segments[1] \o "." \o Join(Tail(segments))

\* replacement.split( '.' )[0], for every replacement of names
deshadowList(names) == { names[k][1] : k \in DOMAIN names }

\* scope.declarations[ name ]: the declaring node, or undefined
declarationOf(scope, name) ==
    IF name \in scope.declarations THEN "node" ELSE "undefined"

\* ToInt32: undefined and an object both convert to NaN, and NaN to 0
ToInt32(v) == IF v \in { "undefined", "node" } THEN 0 ELSE v

\* the ~ operator
BitwiseNot(v) == -ToInt32(v) - 1

Truthy(i) == i # 0

\* names, the mapping in force: the last of replacementStack
replacementNames(r) == r.stack[Len(r.stack)].names

\* The leave callbacks that ran before the node at `path` is entered: the
\* mappings of the scope-tagged nodes that are not above it are popped.
RECURSIVE leaveScopes(_, _)
leaveScopes(stk, path) ==
    IF Len(stk) > 1 /\ ~(IsPrefix(stk[Len(stk)].at, path) /\ stk[Len(stk)].at # path)
    THEN leaveScopes(SubSeq(stk, 1, Len(stk) - 1), path)
    ELSE stk

\* The `\n<target> = <name>;` lines of the declarators that are exported.
RECURSIVE exportInitialisers(_, _, _)
exportInitialisers(decl, bundleExports, k) ==
    IF k > Len(decl.kids) THEN ""
    ELSE LET name == decl.kids[k].kids[1].name
         IN  (IF name \in DOMAIN bundleExports
              THEN "\n" \o bundleExports[name] \o " = " \o name \o ";"
              ELSE "")
               \o exportInitialisers(decl, bundleExports, k + 1)

\* A top-level variable declaration: a single exported declarator is
\* overwritten up to the end of its id, which is flagged _skip; otherwise the
\* export lines are inserted after the declaration or, when the buffer
\* throws on the insertion, appended to the buffer (an empty insertion or
\* append leaves the text as it is and is not recorded).
rewriteDeclaration(r, n, path, bundleExports, insertThrows) ==
    LET name == n.kids[1].kids[1].name
        id == path \o << 1, 1 >>
        text == exportInitialisers(n, bundleExports, 1)
    IN  IF Len(n.kids) = 1 /\ name \in DOMAIN bundleExports
        THEN [r EXCEPT !.edits = @ \cup { [op |-> "overwrite", from |-> path, upto |-> id,
                                           text |-> bundleExports[name]] },
                       !.skip = @ \cup { id }]
        ELSE IF text = "" THEN r
        ELSE IF insertThrows
        THEN [r EXCEPT !.edits = @ \cup { [op |-> "append", from |-> << >>, upto |-> << >>,
                                           text |-> text] }]
        ELSE [r EXCEPT !.edits = @ \cup { [op |-> "insert", from |-> path, upto |-> path,
                                           text |-> text] }]

\* The mapping computed on entering a scope-tagged node.
enterScope(r, scope, deshadow) ==
    LET names == replacementNames(r)
        kept == { key \in DOMAIN names : declarationOf(scope, key) = "undefined" }
        renamed == { name \in deshadow :
                       Truthy(BitwiseNot(declarationOf(scope, name))) }
    IN  [newNames |-> [ key \in kept \cup renamed |->
                          IF key \in renamed THEN << key \o "$$" >> ELSE names[key] ],
         hasReplacements |-> (kept # {} \/ renamed # {})]

\* The identifier rule: no rewrite of the property of a non-computed member
\* access nor of the key of an object property.
rewriteIdentifier(r, n, parent, index, path) ==
    IF n.type # "Identifier" THEN r
    ELSE IF parent.type = "MemberExpression" /\ ~parent.computed /\ index # 1 THEN r
    ELSE IF parent.type = "Property" /\ index # 2 THEN r
    ELSE LET names == replacementNames(r)
         IN  IF n.name \in DOMAIN names /\ Join(names[n.name]) # n.name
             THEN [r EXCEPT !.edits = @ \cup { [op |-> "overwrite", from |-> path,
                                                upto |-> path,
                                                text |-> Join(names[n.name])] }]
             ELSE r

\* The enter callback of the walk, for the node at `path`; a node below a
\* skipped one is not visited.
enterReplace(r, tree, scopes, path, bundleExports, deshadow, insertThrows) ==
    LET n == NodeAt(tree, path)
        parent == NodeAt(tree, ParentPath(path))
        index == IF path = << >> THEN 0 ELSE ChildIndex(path)
        r1 == IF r.topLevel /\ n.type = "VariableDeclaration"
              THEN rewriteDeclaration(r, n, path, bundleExports, insertThrows)
              ELSE r
        sc == enterScope(r1, scopes[path], deshadow)
    IN  IF \E q \in r.pruned : IsPrefix(q, path) THEN r
        ELSE IF path \in r.skip THEN [r EXCEPT !.pruned = @ \cup { path }]
        ELSE IF path \notin DOMAIN scopes
             THEN rewriteIdentifier(r1, n, parent, index, path)
        ELSE IF ~sc.hasReplacements
             THEN [r1 EXCEPT !.topLevel = FALSE, !.pruned = @ \cup { path }]
        ELSE rewriteIdentifier(
                 [r1 EXCEPT !.topLevel = FALSE,
                            !.stack = Append(@, [at |-> path, names |-> sc.newNames])],
                 n, parent, index, path)

RECURSIVE walkReplace(_, _, _, _, _, _, _, _)
walkReplace(r, tree, scopes, order, k, bundleExports, deshadow, insertThrows) ==
    IF k > Len(order) THEN r
    ELSE walkReplace(
             enterReplace([r EXCEPT !.stack = leaveScopes(@, order[k])],
                          tree, scopes, order[k], bundleExports, deshadow, insertThrows),
             tree, scopes, order, k + 1, bundleExports, deshadow, insertThrows)

\* The edits of the returned copy and the _skip annotations left on the tree.
replaceIdentifiers(tree, scopes, skipping, names, bundleExports, insertThrows) ==
    LET r == [stack |-> << [at |-> Root, names |-> names] >>, topLevel |-> TRUE,
              pruned |-> {}, edits |-> {}, skip |-> skipping]
    IN  IF DOMAIN names # {} \/ DOMAIN bundleExports # {}
        THEN walkReplace(r, tree, scopes, Visits(tree, << >>), 1, bundleExports,
                         deshadowList(names), insertThrows)
        ELSE r

\* A call of replaceIdentifiers on the analysed statement.
ReplaceIdentifiers ==
    /\ walk.pass = "done"
    /\ \E names \in NameMaps, bundleExports \in ExportMaps :
          \E r \in { replaceIdentifiers(node, statement.scopes, skip, names,
                                        bundleExports, insertFails) } :
              /\ buffer' = r.edits
              /\ skip' = r.skip
              /\ args' = [names |-> names, bundleExports |-> bundleExports,
                          called |-> TRUE]
    /\ UNCHANGED << avars, evars, insertFails >>

\* The statement is analysed; its buffer takes the insertion or refuses it.
InitReplace ==
    /\ ExpandIdle
    /\ node \in Programs
    /\ imports = NoImports
    /\ statement = Blank
    /\ walk = [pass |-> "scopes", cursor |-> 1]
    /\ error = NoError
    /\ skip = {}
    /\ buffer = {}
    /\ args = NoArgs
    /\ insertFails \in BOOLEAN

NextReplace == NextAnalyse \/ ReplaceIdentifiers

SpecReplace == InitReplace /\ [][NextReplace]_vars

(***************************************************************************)
(* The pieces of expand().                                                 *)
(***************************************************************************)
GateNeverSet(inc, s) == inc

\* this.isIncluded = true, before anything is awaited
SetIncluded(inc, s) == [inc EXCEPT ![s] = TRUE]

ResolveWithSelf(s) == << s >>

\* if ( this.isIncluded ) return emptyArrayPromise
ExpandIncluded(s) == emptyArrayPromise

SelfFirst(result, s) == << s >> \o result

SelfTwice(result, s) == Append(Append(result, s), s)

\* result.push( this ), after the dependencies
PushSelf(result, s) == Append(result, s)

\* result.push.apply( result, definition )
PushDefinition(result, def) == result \o def

ModifiersFirst(result, statements) == statements \o result

\* result.push.apply( result, statements ), for a modifier's expansion
PushModifications(result, statements) == result \o statements

Frame(s) == [stmt |-> s, pc |-> "deps", i |-> 1, result |-> << >>]

TopFrame(c) == c[Len(c)]

WithTop(c, f) == [c EXCEPT ![Len(c)] = f]

\* The pending calls once the chain c has moved on to d.
Moved(c, d) == (chains \ {c}) \cup {d}

Included == { s \in Stmts : isIncluded[s] }

\* The body of expand() up to its first await, for a statement not yet
\* included; `under` is the stack of bodies the call was made from.  The gate
\* allows each body once, so a stack never holds more than NStmts bodies.
EnterBody(s, under) ==
    /\ Len(under) < NStmts + 1
    /\ isIncluded' = SetIncluded(isIncluded, s)
    /\ entered' = [entered EXCEPT ![s] = @ + 1]
    /\ pendingAtEntry' = [pendingAtEntry EXCEPT ![s] =
            { under[k].stmt : k \in { j \in 1 .. Len(under) : under[j].pc = "deps" } }]

(***************************************************************************)
(* Analysis records the names of each statement.                           *)
(***************************************************************************)
\* this.dependsOn[ node.name ] = true
RecordRead(s, n) ==
    /\ phase = "analyse"
    /\ EdgeCount < MaxEdges
    /\ n \notin Range(dependsOn[s])
    /\ dependsOn' = [dependsOn EXCEPT ![s] = Append(@, n)]
    /\ UNCHANGED << phase, modifies, defines, isIncluded, chains, ret, entered, top,
                    pendingAtEntry, includedAtPush, last >>
    /\ UNCHANGED << avars, rvars >>

\* this.modifies[ node.name ] = true
RecordWrite(s, n) ==
    /\ phase = "analyse"
    /\ EdgeCount < MaxEdges
    /\ n \notin modifies[s]
    /\ modifies' = [modifies EXCEPT ![s] = @ \cup {n}]
    /\ UNCHANGED << phase, dependsOn, defines, isIncluded, chains, ret, entered, top,
                    pendingAtEntry, includedAtPush, last >>
    /\ UNCHANGED << avars, rvars >>

\* statement.defines[ name ] = true
RecordDefine(s, n) ==
    /\ phase = "analyse"
    /\ DefineCount < MaxDefines
    /\ n \notin Range(defines[s])
    /\ defines' = [defines EXCEPT ![s] = Append(@, n)]
    /\ UNCHANGED << phase, dependsOn, modifies, isIncluded, chains, ret, entered, top,
                    pendingAtEntry, includedAtPush, last >>
    /\ UNCHANGED << avars, rvars >>

StartBundling ==
    /\ phase = "analyse"
    /\ phase' = "bundle"
    /\ UNCHANGED << dependsOn, modifies, defines, isIncluded, chains, ret, entered, top,
                    pendingAtEntry, includedAtPush, last >>
    /\ UNCHANGED << avars, rvars >>

(***************************************************************************)
(* expand(), one promise step per action.  A top-level call may be made    *)
(* at any moment, other calls pending or not; the steps of the pending     *)
(* calls interleave, Module.define resolving when it will.                 *)
(***************************************************************************)
\* A top-level expand() call on a statement that is already included.
ExpandAgain(s) ==
    /\ phase = "bundle"
    /\ isIncluded[s]
    /\ last' = [stmt |-> s, list |-> ExpandIncluded(s), again |-> TRUE]
    /\ UNCHANGED << phase, dependsOn, modifies, defines, isIncluded, chains, ret,
                    entered, top, pendingAtEntry, includedAtPush >>
    /\ UNCHANGED << avars, rvars >>

\* A top-level expand() call on a statement not yet included.
Expand(s) ==
    /\ phase = "bundle"
    /\ ~isIncluded[s]
    /\ EnterBody(s, << >>)
    /\ chains' = chains \cup { << Frame(s) >> }
    /\ top' = top \cup {s}
    /\ last' = NoCall
    /\ UNCHANGED << phase, dependsOn, modifies, defines, ret, includedAtPush >>
    /\ UNCHANGED << avars, rvars >>

\* One expand() call of sequence( dependencies, name => module.define( name ) ).
DefineNext(c) ==
    /\ TopFrame(c).pc = "deps"
    /\ TopFrame(c).i <= Len(definersOf(TopFrame(c).stmt))
    /\ LET f == TopFrame(c)
           d == definersOf(f.stmt)[f.i]
           g == [f EXCEPT !.i = @ + 1]
       IN  IF isIncluded[d]
           THEN /\ chains' = Moved(c, WithTop(c, [g EXCEPT !.result =
                                PushDefinition(@, ExpandIncluded(d))]))
                /\ UNCHANGED << isIncluded, entered, pendingAtEntry >>
           ELSE /\ EnterBody(d, WithTop(c, g))
                /\ chains' = Moved(c, Append(WithTop(c, g), Frame(d)))
    /\ last' = NoCall
    /\ UNCHANGED << phase, dependsOn, modifies, defines, ret, top, includedAtPush >>
    /\ UNCHANGED << avars, rvars >>

\* .then( () => { result.push( this ); } )
IncludeSelf(c) ==
    /\ TopFrame(c).pc = "deps"
    /\ TopFrame(c).i > Len(definersOf(TopFrame(c).stmt))
    /\ LET f == TopFrame(c)
       IN  /\ chains' = Moved(c, WithTop(c, [f EXCEPT !.pc = "mods", !.i = 1,
                                                      !.result = PushSelf(@, f.stmt)]))
           /\ includedAtPush' = [includedAtPush EXCEPT ![f.stmt] = Included]
    /\ last' = NoCall
    /\ UNCHANGED << phase, dependsOn, modifies, defines, isIncluded, ret, entered, top,
                    pendingAtEntry >>
    /\ UNCHANGED << avars, rvars >>

\* One step of sequence( modifications, statement => ... ).
ModifierNext(c) ==
    /\ TopFrame(c).pc = "mods"
    /\ TopFrame(c).i <= Len(modifiersOf(TopFrame(c).stmt))
    /\ LET f == TopFrame(c)
           m == modifiersOf(f.stmt)[f.i]
           g == [f EXCEPT !.i = @ + 1]
       IN  IF isIncluded[m]
           THEN /\ chains' = Moved(c, WithTop(c, g))
                /\ UNCHANGED << isIncluded, entered, pendingAtEntry >>
           ELSE /\ EnterBody(m, WithTop(c, g))
                /\ chains' = Moved(c, Append(WithTop(c, g), Frame(m)))
    /\ last' = NoCall
    /\ UNCHANGED << phase, dependsOn, modifies, defines, ret, top, includedAtPush >>
    /\ UNCHANGED << avars, rvars >>

\* .then( () => { return result; } ): the promise expand() returned is
\* resolved.  The call of a pending body waits for its caller's continuation.
Resolve(c) ==
    /\ TopFrame(c).pc = "mods"
    /\ TopFrame(c).i > Len(modifiersOf(TopFrame(c).stmt))
    /\ LET f == TopFrame(c)
       IN  /\ ret' = [ret EXCEPT ![f.stmt] = f.result]
           /\ IF Len(c) = 1
              THEN /\ chains' = chains \ {c}
                   /\ last' = [stmt |-> f.stmt, list |-> f.result, again |-> FALSE]
              ELSE /\ chains' = Moved(c, WithTop(c, [f EXCEPT !.pc = "resolved"]))
                   /\ last' = NoCall
    /\ UNCHANGED << phase, dependsOn, modifies, defines, isIncluded, entered, top,
                    pendingAtEntry, includedAtPush >>
    /\ UNCHANGED << avars, rvars >>

\* The caller's continuation, a later callback: result.push.apply( result,
\* definition ) in step 1, result.push.apply( result, statements ) in step 3.
PushResult(c) ==
    /\ TopFrame(c).pc = "resolved"
    /\ LET f == TopFrame(c)
           rest == SubSeq(c, 1, Len(c) - 1)
           caller == rest[Len(rest)]
       IN  chains' = Moved(c, [rest EXCEPT ![Len(rest)] =
                      [caller EXCEPT !.result =
                          IF caller.pc = "deps"
                          THEN PushDefinition(@, f.result)
                          ELSE PushModifications(@, f.result)]])
    /\ last' = NoCall
    /\ UNCHANGED << phase, dependsOn, modifies, defines, isIncluded, ret, entered, top,
                    pendingAtEntry, includedAtPush >>
    /\ UNCHANGED << avars, rvars >>

InitExpand ==
    /\ phase = "analyse"
    /\ dependsOn = [s \in Stmts |-> << >>]
    /\ modifies = [s \in Stmts |-> {}]
    /\ defines = [s \in Stmts |-> << >>]
    /\ isIncluded = [s \in Stmts |-> FALSE]
    /\ chains = {}
    /\ ret = [s \in Stmts |-> << >>]
    /\ entered = [s \in Stmts |-> 0]
    /\ top = {}
    /\ pendingAtEntry = [s \in Stmts |-> {}]
    /\ includedAtPush = [s \in Stmts |-> {}]
    /\ last = NoCall
    /\ node = Literal
    /\ imports = NoImports
    /\ statement = Blank
    /\ walk = Idle
    /\ error = NoError
    /\ skip = {}
    /\ buffer = {}
    /\ args = NoArgs
    /\ insertFails = FALSE

Advance ==
    \E c \in chains :
        DefineNext(c) \/ IncludeSelf(c) \/ ModifierNext(c) \/ Resolve(c) \/ PushResult(c)

NextExpand ==
    \/ \E s \in Stmts, n \in Names : RecordRead(s, n)
    \/ \E s \in Stmts, n \in Names : RecordWrite(s, n)
    \/ \E s \in Stmts, n \in Names : RecordDefine(s, n)
    \/ StartBundling
    \/ \E s \in Stmts : Expand(s)
    \/ \E s \in Stmts : ExpandAgain(s)
    \/ \E c \in chains : DefineNext(c)
    \/ \E c \in chains : IncludeSelf(c)
    \/ \E c \in chains : ModifierNext(c)
    \/ \E c \in chains : Resolve(c)
    \/ \E c \in chains : PushResult(c)

SpecExpand == InitExpand /\ [][NextExpand]_vars

\* Promise continuations that are ready always run.
SpecExpandFair == SpecExpand /\ WF_vars(Advance)

(***************************************************************************)
(* Properties of expand().                                                 *)
(***************************************************************************)
Pos(list, x) == IndexOf(list, x)

Resolved(s) == ret[s] # << >>

\* The promise the statement's expand() returned is not resolved yet.
Pending(s) ==
    \E c \in chains : \E k \in 1 .. Len(c) : c[k].stmt = s /\ c[k].pc # "resolved"

NoDuplicates(list) == \A j, k \in 1 .. Len(list) : list[j] = list[k] => j = k

\* d is a statement Module.define resolves a dependency of s to.
DependsOnStmt(s, d) ==
    /\ d # s
    /\ d \in Range(definersOf(s))

\* m is recorded as modifying a name s defines, and follows s in the source.
LaterModifier(s, m) ==
    /\ m > s
    /\ m \in Range(modifiersOf(s))

BothIn(list, a, b) == a \in Range(list) /\ b \in Range(list)

\* C1 as stated: in every list an expand() call returned, a statement D that a
\* dependency of S resolves to precedes S, whatever the dependency graph.
C1_DependencyPrecedesAlways ==
    \A s, d, t \in Stmts :
        (DependsOnStmt(s, d) /\ BothIn(ret[t], s, d))
            => Pos(ret[t], d) < Pos(ret[t], s)

\* C1 amended: D precedes S in every returned list that holds both, unless
\* D's own expand() was still resolving its dependencies when S's expand()
\* body was entered from it (S was reached from D's dependency step: a cycle).
C1_DependencyPrecedesUnlessPending ==
    \A s, d, t \in Stmts :
        (DependsOnStmt(s, d) /\ BothIn(ret[t], s, d) /\ d \notin pendingAtEntry[s])
            => Pos(ret[t], d) < Pos(ret[t], s)

\* A resolved two-statement dependency cycle: the statement entered second is
\* listed first, and the ordering holds for the statement entered first.
C1_Witness ==
    \E s, d \in Stmts :
        /\ DependsOnStmt(s, d) /\ DependsOnStmt(d, s)
        /\ d \notin pendingAtEntry[s]
        /\ Resolved(s) /\ BothIn(ret[s], s, d)
        /\ Pos(ret[s], d) < Pos(ret[s], s)

\* C2 as stated: a recorded modifier M of a name S defines, later in the
\* source than S, follows S in the list S's expand() call returned,
\* whatever the graph.
C2_ModifierFollowsAlways ==
    \A s, m \in Stmts :
        (LaterModifier(s, m) /\ Resolved(s) /\ BothIn(ret[s], s, m))
            => Pos(ret[s], s) < Pos(ret[s], m)

\* C2 amended: a later modifier M that was not yet included when S appended
\* itself is included by the time S's call resolves, and follows S in every
\* returned list that holds both.
C2_ModifierFollowsUnlessIncluded ==
    \A s, m \in Stmts :
        (LaterModifier(s, m) /\ Resolved(s) /\ m \notin includedAtPush[s])
            => /\ isIncluded[m]
               /\ \A t \in Stmts : BothIn(ret[t], s, m)
                        => Pos(ret[t], s) < Pos(ret[t], m)

\* S's expand() has expanded a later modifier M and listed it after S.
C2_Witness ==
    \E s, m \in Stmts :
        /\ LaterModifier(s, m) /\ Resolved(s) /\ m \notin includedAtPush[s]
        /\ Len(ret[s]) >= 2
        /\ BothIn(ret[s], s, m)
        /\ Pos(ret[s], s) < Pos(ret[s], m)

\* The chain c takes the re-entrant branch: its next step is the expand() call
\* of a define() on a statement that is already included.
DefinesIncluded(c) ==
    /\ TopFrame(c).pc = "deps"
    /\ TopFrame(c).i <= Len(definersOf(TopFrame(c).stmt))
    /\ isIncluded[definersOf(TopFrame(c).stmt)[TopFrame(c).i]]

\* C3: the first expand() call on S sets S.isIncluded and resolves to a list
\* that contains S; a later call on S, after the first resolved or while it is
\* pending, resolves to the empty list and changes no flag; isIncluded never
\* goes back to false.
C3_ExpandIdempotent ==
    [][ /\ \A s \in Stmts : isIncluded[s] => isIncluded'[s]
        /\ \A s \in Stmts : (entered'[s] > entered[s]) => (~isIncluded[s] /\ isIncluded'[s])
        /\ \A s \in Stmts : (~Resolved(s) /\ Resolved(s)') => s \in Range(ret'[s])
        /\ (last' # last /\ last'.again) =>
              /\ isIncluded[last'.stmt]
              /\ last'.list = << >>
              /\ isIncluded' = isIncluded
              /\ chains' = chains
        /\ \A c \in chains : (DefinesIncluded(c) /\ c \notin chains') =>
              /\ isIncluded' = isIncluded
              /\ \E d \in chains' :
                    /\ d \notin chains
                    /\ Len(d) = Len(c)
                    /\ TopFrame(d).result = TopFrame(c).result
      ]_vars

\* A second top-level call on a statement has resolved to the empty list
\* while the statement's first call is still pending.
C3_Witness ==
    /\ last.again
    /\ last.list = << >>
    /\ Pending(last.stmt)

\* C4: with dependency and modification cycles, every pending expand() call
\* eventually resolves, and no statement's expand() body is entered twice.
C4_TerminatesOnCycles ==
    /\ [](\A s \in Stmts : entered[s] <= 1)
    /\ ((chains # {}) ~> (chains = {}))

\* A cycle of two statements has been expanded and the call has resolved.
C4_Witness ==
    /\ chains = {}
    /\ \E s, d \in Stmts :
          /\ DependsOnStmt(s, d)
          /\ DependsOnStmt(d, s)
          /\ entered[s] = 1 /\ entered[d] = 1
          /\ Resolved(s) /\ Resolved(d)

\* C5: once the top-level calls have resolved, no statement occurs twice in
\* a returned list, none occurs in two returned lists, and the listed
\* statements are exactly the included ones.
C5_DuplicateFree ==
    chains = {} =>
        /\ \A s \in top : NoDuplicates(ret[s])
        /\ \A s, t \in top : s # t => Range(ret[s]) \cap Range(ret[t]) = {}
        /\ UNION { Range(ret[s]) : s \in top } = Included

\* Two top-level calls have resolved, the later one on a statement that
\* depends on the statement the earlier one had already included.
C5_Witness ==
    /\ chains = {}
    /\ \E s, d \in top :
          /\ DependsOnStmt(s, d)
          /\ Resolved(s) /\ Resolved(d)
          /\ d \notin Range(ret[s])

(***************************************************************************)
(* Properties of analyse().                                                *)
(***************************************************************************)
\* The name is declared by a scope around the node at `path`: one attached
\* to the node or to a node above it, the statement's own scope excluded.
DeclaredInside(path, name) ==
    \E q \in DOMAIN statement.scopes :
        q # Root /\ IsPrefix(q, path) /\ name \in statement.scopes[q].declarations

DeclaredAround(path, name) ==
    DeclaredInside(path, name) \/ name \in statement.scopes[Root].declarations

Visiting(types) ==
    /\ walk.pass = "classify"
    /\ walk.cursor <= Len(Order)
    /\ NodeAt(node, Order[walk.cursor]).type \in types

\* C6: visiting an assignment or an update whose target unwraps, through d
\* member accesses, to an imported name x that no scope around the node
\* declares, analyse() throws exactly when d < 1 (named import) or d < 2
\* (namespace import); the throwing write adds nothing to modifies, and
\* defines stays empty.
C6_IllegalReassignment ==
    [][ /\ Visiting({ "AssignmentExpression", "UpdateExpression" }) =>
              LET path == Order[walk.cursor]
                  target == NodeAt(node, Append(path, 1))
                  d == UnwrapDepth(target)
                  x == NodeAt(node, UnwrapPath(target, Append(path, 1)))
              IN  (x.type = "Identifier" /\ imports[x.name] # "none"
                     /\ ~DeclaredAround(path, x.name))
                  => /\ (error' # NoError) <=>
                            (IF imports[x.name] = "*" THEN d < 2 ELSE d < 1)
                     /\ (error' # NoError) =>
                            /\ error'.name = x.name
                            /\ walk'.pass = "failed"
                            /\ statement'.modifies = statement.modifies
                            /\ statement'.defines = {}
                     /\ (error' = NoError) => x.name \in statement'.modifies
        /\ walk.pass = "failed" => statement.defines = {}
      ]_vars

\* `ns.y = 1` or `ns.y++` on a namespace import has thrown.
C6_Witness ==
    /\ walk.pass = "failed"
    /\ imports[error.name] = "*"
    /\ Len(error.at) >= 1
    /\ NodeAt(node, ParentPath(error.at)).type = "MemberExpression"
    /\ NodeAt(node, ParentPath(ParentPath(error.at))).type
            \in { "AssignmentExpression", "UpdateExpression" }

\* C8: after analyse(), dependsOn and defines are disjoint.
C8_DependsOnExcludesDefines ==
    walk.pass = "done" => statement.dependsOn \cap statement.defines = {}

\* The identifier at `path` is a read by the rule of C9: not the property of a
\* non-computed member access, not the key of an object property.
IsReadByRule(path) ==
    LET n == NodeAt(node, path)
        parent == NodeAt(node, ParentPath(path))
    IN  /\ n.type = "Identifier"
        /\ path # << >>
        /\ ~(parent.type = "MemberExpression" /\ ~parent.computed /\ ChildIndex(path) # 1)
        /\ ~(parent.type = "Property" /\ ChildIndex(path) # 2)

\* C9: dependsOn holds the names read by the rule that resolve to the module
\* root or to nothing (those the statement defines aside), the property of a
\* computed access included, and only names read by the rule.
C9_ComputedPropertyIsRead ==
    walk.pass = "done" =>
        /\ \A path \in Range(Order) :
              (IsReadByRule(path)
                 /\ ~DeclaredInside(path, NodeAt(node, path).name)
                 /\ NodeAt(node, path).name \notin statement.defines)
              => NodeAt(node, path).name \in statement.dependsOn
        /\ \A name \in statement.dependsOn :
              \E path \in Range(Order) :
                  /\ IsReadByRule(path)
                  /\ NodeAt(node, path).name = name
                  /\ ~DeclaredInside(path, name)

(***************************************************************************)
(* Properties of replaceIdentifiers().                                     *)
(***************************************************************************)
\* C7: the copy a call returns is the one the same call returns on the
\* freshly analysed statement, whatever calls were made before.
C7_BufferDependsOnArgumentsOnly ==
    args.called =>
        buffer = replaceIdentifiers(node, statement.scopes, {}, args.names,
                                    args.bundleExports, insertFails).edits

\* C10: an identifier is rewritten to `r$$`, r a deshadow candidate, only
\* inside a scope-tagged node whose scope declares r.
C10_DeshadowOnlyWhereDeclared ==
    \A e \in buffer : \A r \in deshadowList(args.names) :
        (e.op = "overwrite" /\ e.text = r \o "$$") => DeclaredInside(e.from, r)

====
